---- MODULE Spec2Model ----
(***************************************************************************)
(* Flight price monitor: the matcher and the alert state machine of        *)
(* flight_monitor.py (check_once and its helpers), together with the       *)
(* subscription file that app.py maintains.                                *)
(*                                                                         *)
(* Encoding of Python values:                                              *)
(*   - None in an integer valued field (last_price, last_notified_price,   *)
(*     last_depart) is the integer None; prices are naturals.              *)
(*   - None in last_notified_dir is the string NoDir.                      *)
(*   - a departure timestamp is the number of seconds after a fixed        *)
(*     origin; a departure string that datetime.fromisoformat rejects      *)
(*     (for instance "") is BadDepart.                                     *)
(*   - a route key is the sequence of its dash-free segments, so that      *)
(*     "DEL-BLR-2025-08-25" is <<"DEL","BLR","2025","08","25">>.           *)
(*   - MIN_CHANGE_PCT is kept in tenths of a percent (1.0 is 10).          *)
(***************************************************************************)
EXTENDS Integers, Sequences, FiniteSets, TLC

VARIABLES
    ALERT_MODE,      \* configuration, read once at process start
    MIN_CHANGE_PCT,  \* configuration, in tenths of a percent
    USE_REAL,        \* configuration: try the live provider first
    subs_file,       \* subscriptions.json, the list of CHAT_ID
    prices_file,     \* prices.json
    pc,              \* position of the monitor process
    selected,        \* check_once: the list being iterated
    idx,             \* check_once: index of the next element of selected
    store,           \* check_once: the in-memory store
    changed,         \* check_once: the changed flag
    price_key,       \* check_once: tracking key of the last loop iteration
    prev,            \* check_once: the record it read for that key (line 202)
    res,             \* what real_flights returned to the last loop iteration
                     \* (<<>> when it failed or was not called)
    flights,         \* what fetch_flights returned to the last loop iteration
    found,           \* candidate matched by the last loop iteration
    tier,            \* matcher tier that produced it
    alert,           \* alert decided by the last loop iteration
    writes,          \* number of set_store calls of the current cycle
    sent,            \* history: the alerts decided so far, as <<key, price, dir>>
    last_sent        \* history: per tracking key, the last alert decided

vars == <<ALERT_MODE, MIN_CHANGE_PCT, USE_REAL, subs_file, prices_file, pc,
          selected, idx, store, changed, price_key, prev, res, flights, found, tier,
          alert, writes, sent, last_sent>>

----------------------------------------------------------------------------
(* Values *)

None == -1
BadDepart == -2
NoDir == "none"

\* bounds of the model
MaxSubs == 2
MaxReal == 1
MaxFlights == 2

Prices == {0, 4900, 4950, 5000}
Thresholds == {0, 10, 20}
Modes == {"drop", "rise", "both"}

KeyOk == <<"DEL", "BLR", "2025", "08", "25">>
KeyBadDate == <<"DEL", "BLR", "2025", "02", "30">>
KeyShort == <<"DEL", "BLR">>

Lower ==
    [a \in {"IndiGo", "indigo", "INDIGO", "Air India", "air india",
             "SpiceJet", "spicejet", ""} |->
        CASE a \in {"IndiGo", "indigo", "INDIGO"} -> "indigo"
          [] a \in {"Air India", "air india"} -> "air india"
          [] a \in {"SpiceJet", "spicejet"} -> "spicejet"
          [] OTHER -> ""]

NotFound == [airline |-> "", flightNo |-> "", depart |-> None, price |-> None]
NoAlert == [key |-> <<>>, price |-> None, dir |-> NoDir, delivered |-> FALSE]
NoRecord == [last_price |-> None, last_notified_price |-> None,
             last_notified_dir |-> NoDir, last_depart |-> None]

----------------------------------------------------------------------------
(* Subscriptions: load_selected_flights *)

\* an entry of subscriptions.json: a flight-level object, or a bare route string
FlightEntry(k, no, air) == [kind |-> "flight", key |-> k, flightNo |-> no, airline |-> air]
RouteEntry(k) == [kind |-> "route", key |-> k, flightNo |-> "", airline |-> ""]

RECURSIVE load_selected_flights(_)
load_selected_flights(items) ==
    IF items = <<>> THEN <<>>
    ELSE LET it == Head(items)
             rest == load_selected_flights(Tail(items))
         IN IF it.kind = "flight" /\ it.key # <<>> /\ it.flightNo # ""
            THEN <<[key |-> it.key, flightNo |-> it.flightNo, airline |-> it.airline]>> \o rest
            ELSE rest

DateOf(key) == SubSeq(key, 3, Len(key))

PriceKey(key, flight_no) == <<key, flight_no>>

\* datetime.fromisoformat on the date part of a key
DayStr == <<"01", "02", "03", "04", "05", "06", "07", "08", "09", "10",
            "11", "12", "13", "14", "15", "16", "17", "18", "19", "20",
            "21", "22", "23", "24", "25", "26", "27", "28", "29", "30", "31">>
DaysInMonth == [m \in {"01", "02", "03", "04", "05", "06", "07", "08", "09", "10", "11", "12"} |->
                  IF m = "02" THEN 28
                  ELSE IF m \in {"04", "06", "09", "11"} THEN 30 ELSE 31]
IsIsoDate(d) ==
    /\ Len(d) = 3
    /\ d[1] \in {"2025"}
    /\ d[2] \in DOMAIN DaysInMonth
    /\ \E n \in 1..DaysInMonth[d[2]] : d[3] = DayStr[n]

----------------------------------------------------------------------------
(* Flight Source: stable_mock_flights, real_flights, fetch_flights *)

Candidate(air, no, dep, p) == [airline |-> air, flightNo |-> no, depart |-> dep, price |-> p]

\* the airlines table and the stable slots of the stand-in generator
MockAirlines == <<"IndiGo", "Air India">>
MockSlots == <<0, 1800, 5400>>
MockNumbers == <<"6E212", "AI222", "6E232">>

\* one call of the generator on a valid date: every flight carries the
\* price of the current minute
stable_mock_flights(price) ==
    [i \in 1..Len(MockSlots) |->
        Candidate(MockAirlines[((i - 1) % Len(MockAirlines)) + 1],
                  MockNumbers[i], MockSlots[i], price)]

MockPrices == Prices \ {0}

fetch_flights_no_fallback(date, real, price) ==
    IF USE_REAL
    THEN [ok |-> TRUE, flights |-> real]
    ELSE IF IsIsoDate(date)
         THEN [ok |-> TRUE, flights |-> stable_mock_flights(price)]
         ELSE [ok |-> FALSE, flights |-> <<>>]

\* fetch_flights: real is what real_flights returned (<<>> on any failure or
\* without API_KEY), price the generator's price of the minute.  The
\* generator raises ValueError on a date that is not an ISO date.
fetch_flights(date, real, price) ==
    IF USE_REAL /\ real # <<>>
    THEN [ok |-> TRUE, flights |-> real]
    ELSE IF IsIsoDate(date)
         THEN [ok |-> TRUE, flights |-> stable_mock_flights(price)]
         ELSE [ok |-> FALSE, flights |-> <<>>]

----------------------------------------------------------------------------
(* Matcher: find_exact, find_fallback, and the three tiers of check_once *)

Abs(x) == IF x < 0 THEN -x ELSE x

find_exact(fl, flight_no) ==
    IF \E i \in 1..Len(fl) : fl[i].flightNo = flight_no
    THEN fl[CHOOSE i \in 1..Len(fl) :
                /\ fl[i].flightNo = flight_no
                /\ \A j \in 1..(i - 1) : fl[j].flightNo # flight_no]
    ELSE NotFound

SameAirline(fl, airline) ==
    SelectSeq(fl, LAMBDA f : Lower[f.airline] = Lower[airline])

FallbackWindow == 15 * 60

RECURSIVE FallbackLoopLastWins(_, _, _, _, _)
FallbackLoopLastWins(same_air, target, j, best, best_delta) ==
    IF j > Len(same_air) THEN <<best, best_delta>>
    ELSE LET f == same_air[j] IN
         IF f.depart = BadDepart
         THEN FallbackLoopLastWins(same_air, target, j + 1, best, best_delta)
         ELSE LET delta == Abs(f.depart - target) IN
              IF best = NotFound \/ delta <= best_delta
              THEN FallbackLoopLastWins(same_air, target, j + 1, f, delta)
              ELSE FallbackLoopLastWins(same_air, target, j + 1, best, best_delta)

\* the loop of find_fallback over same_air, from position j on
RECURSIVE FallbackLoop(_, _, _, _, _)
FallbackLoop(same_air, target, j, best, best_delta) ==
    IF j > Len(same_air) THEN <<best, best_delta>>
    ELSE LET f == same_air[j] IN
         IF f.depart = BadDepart
         THEN FallbackLoop(same_air, target, j + 1, best, best_delta)
         ELSE LET delta == Abs(f.depart - target) IN
              IF best = NotFound \/ delta < best_delta
              THEN FallbackLoop(same_air, target, j + 1, f, delta)
              ELSE FallbackLoop(same_air, target, j + 1, best, best_delta)

FallbackAcceptAny(best, best_delta) == best # NotFound

FallbackAccept(best, best_delta) ==
    best # NotFound /\ best_delta <= FallbackWindow

find_fallback(fl, airline, last_depart_iso) ==
    IF airline = "" \/ last_depart_iso = None THEN NotFound
    ELSE IF last_depart_iso = BadDepart THEN NotFound
    ELSE LET same_air == SameAirline(fl, airline) IN
         IF same_air = <<>> THEN NotFound
         ELSE LET r == FallbackLoop(same_air, last_depart_iso, 1, NotFound, 0) IN
              IF FallbackAccept(r[1], r[2]) THEN r[1] ELSE NotFound

\* min(same, key=price): the first candidate of minimum price
CheapestOf(same) ==
    same[CHOOSE i \in 1..Len(same) :
            /\ \A j \in 1..Len(same) : same[i].price <= same[j].price
            /\ \A j \in 1..(i - 1) : same[j].price > same[i].price]

SnapAlways(last, airline) == airline # ""

SnapAllowed(last, airline) == last = None /\ airline # ""

auto_snap(fl, airline, last) ==
    IF SnapAllowed(last, airline)
    THEN LET same == SameAirline(fl, airline) IN
         IF same # <<>> THEN CheapestOf(same) ELSE NotFound
    ELSE NotFound

MatchPrefersFallback(fl, flight_no, airline, last, last_depart) ==
    LET fb == find_fallback(fl, airline, last_depart) IN
    IF fb # NotFound THEN [cand |-> fb, tier |-> "fallback"]
    ELSE LET e == find_exact(fl, flight_no) IN
         IF e # NotFound THEN [cand |-> e, tier |-> "exact"]
         ELSE LET sn == auto_snap(fl, airline, last) IN
              IF sn # NotFound THEN [cand |-> sn, tier |-> "snap"]
              ELSE [cand |-> NotFound, tier |-> "none"]

\* lines 206-215 of check_once: the matched candidate and the tier that
\* produced it
Match(fl, flight_no, airline, last, last_depart) ==
    LET e == find_exact(fl, flight_no) IN
    IF e # NotFound THEN [cand |-> e, tier |-> "exact"]
    ELSE LET fb == find_fallback(fl, airline, last_depart) IN
         IF fb # NotFound THEN [cand |-> fb, tier |-> "fallback"]
         ELSE LET sn == auto_snap(fl, airline, last) IN
              IF sn # NotFound THEN [cand |-> sn, tier |-> "snap"]
              ELSE [cand |-> NotFound, tier |-> "none"]

----------------------------------------------------------------------------
(* Alert Decision Engine: lines 237-244 of check_once *)

PctStrict(price, last, t) ==
    IF last <= 0 THEN 0 > t ELSE 1000 * Abs(price - last) > t * last

PctZeroBaselineAlways(price, last, t) ==
    IF last <= 0 THEN TRUE ELSE 1000 * Abs(price - last) >= t * last

\* pct_move >= MIN_CHANGE_PCT, the threshold t in tenths of a percent
PctReached(price, last, t) ==
    IF last <= 0 THEN 0 >= t ELSE 1000 * Abs(price - last) >= t * last

DirectionNoFlat(price, last) ==
    IF price <= last THEN "drop" ELSE "rise"

Direction(price, last) ==
    IF price < last THEN "drop" ELSE IF price > last THEN "rise" ELSE "flat"

ModeEnablesAny(mode, dir) == dir \in {"drop", "rise"}

ModeEnables(mode, dir) ==
    \/ dir = "drop" /\ mode \in {"drop", "both"}
    \/ dir = "rise" /\ mode \in {"rise", "both"}

DedupDropped(price, dir, last_notified, last_dir) == TRUE

DedupOnlyFirst(price, dir, last_notified, last_dir) == last_notified = None

DedupOnlyRises(price, dir, last_notified, last_dir) ==
    dir = "drop" \/ price # last_notified \/ last_dir # dir

DedupPasses(price, dir, last_notified, last_dir) ==
    price # last_notified \/ last_dir # dir

should_alert(price, last, last_notified, last_dir) ==
    LET direction == Direction(price, last) IN
    /\ ModeEnables(ALERT_MODE, direction)
    /\ PctReached(price, last, MIN_CHANGE_PCT)
    /\ DedupPasses(price, direction, last_notified, last_dir)


----------------------------------------------------------------------------
(* The monitor process: check_once and the __main__ loop *)

\* subscriptions.json as found at start: any list of at most MaxSubs entries
SubUniverse ==
    { FlightEntry(KeyOk, "6E212", "IndiGo"),
      FlightEntry(KeyOk, "SG404", "SpiceJet"),
      FlightEntry(KeyBadDate, "6E212", "IndiGo"),
      FlightEntry(KeyShort, "6E212", "IndiGo"),
      RouteEntry(KeyOk) }

SeqsUpTo(S, n) == UNION { [1..m -> S] : m \in 0..n }

\* what real_flights can return: the parsed provider response, <<>> on failure
RealCands ==
    { Candidate("INDIGO", "6E212", 900, 0),
      Candidate("IndiGo", "6E777", 901, 4900),
      Candidate("Air India", "AI222", BadDepart, 5000) }
RealResults == SeqsUpTo(RealCands, MaxReal)
\* real_flights is called only with USE_REAL
RealOutcomes == IF USE_REAL THEN RealResults ELSE {<<>>}

Get(st, k) == IF k \in DOMAIN st THEN st[k] ELSE NoRecord
Put(st, k, rec) == [x \in DOMAIN st \cup {k} |-> IF x = k THEN rec ELSE st[x]]

Init ==
    /\ ALERT_MODE \in Modes
    /\ MIN_CHANGE_PCT \in Thresholds
    /\ USE_REAL \in BOOLEAN
    /\ subs_file \in SeqsUpTo(SubUniverse, MaxSubs)
    /\ prices_file = <<>>
    /\ pc = "sleep"
    /\ selected = <<>>
    /\ idx = 1
    /\ store = <<>>
    /\ changed = FALSE
    /\ price_key = <<>>
    /\ prev = NoRecord
    /\ res = <<>>
    /\ flights = <<>>
    /\ found = NotFound
    /\ tier = "none"
    /\ alert = NoAlert
    /\ writes = 0
    /\ sent = {}
    /\ last_sent = <<>>

Config == <<ALERT_MODE, MIN_CHANGE_PCT, USE_REAL>>
History == <<sent, last_sent>>

\* lines 185-190: load the subscriptions, return if there are none, else
\* read the store once
CheckOnceBegin ==
    /\ pc = "sleep"
    /\ LET sel == load_selected_flights(subs_file) IN
       IF sel = <<>>
       THEN /\ UNCHANGED <<pc, selected, idx, store, changed>>
       ELSE /\ pc' = "loop"
            /\ selected' = sel
            /\ idx' = 1
            /\ store' = prices_file
            /\ changed' = FALSE
    /\ price_key' = <<>>
    /\ prev' = NoRecord
    /\ res' = <<>>
    /\ flights' = <<>>
    /\ found' = NotFound
    /\ tier' = "none"
    /\ alert' = NoAlert
    /\ writes' = 0
    /\ UNCHANGED <<Config, History, subs_file, prices_file>>

LoopExitPrunes(st, ch) ==
    IF idx = Len(selected)
    THEN /\ pc' = "sleep"
         /\ prices_file' =
               IF ch
               THEN [k \in {x \in DOMAIN st : \E i \in 1..Len(selected) :
                                x = PriceKey(selected[i].key, selected[i].flightNo)} |-> st[k]]
               ELSE prices_file
         /\ writes' = IF ch THEN writes + 1 ELSE writes
         /\ selected' = <<>>
         /\ idx' = 1
         /\ store' = <<>>
         /\ changed' = FALSE
    ELSE /\ pc' = "loop"
         /\ idx' = idx + 1
         /\ store' = st
         /\ changed' = ch
         /\ UNCHANGED <<prices_file, writes, selected>>

LoopExitForgets(st, ch) ==
    IF idx = Len(selected)
    THEN /\ pc' = "sleep"
         /\ prices_file' = IF ch THEN st ELSE prices_file
         /\ writes' = IF ch THEN writes + 1 ELSE writes
         /\ selected' = <<>>
         /\ idx' = 1
         /\ store' = <<>>
         /\ changed' = FALSE
    ELSE /\ pc' = "loop"
         /\ idx' = idx + 1
         /\ store' = store
         /\ changed' = ch
         /\ UNCHANGED <<prices_file, writes, selected>>

\* line 273 and the return to the sleep of the __main__ loop, taken by the
\* iteration that exhausts the list
LoopExit(st, ch) ==
    IF idx = Len(selected)
    THEN /\ pc' = "sleep"
         /\ prices_file' = IF ch THEN st ELSE prices_file
         /\ writes' = IF ch THEN writes + 1 ELSE writes
         /\ selected' = <<>>
         /\ idx' = 1
         /\ store' = <<>>
         /\ changed' = FALSE
    ELSE /\ pc' = "loop"
         /\ idx' = idx + 1
         /\ store' = st
         /\ changed' = ch
         /\ UNCHANGED <<prices_file, writes, selected>>

NewRecordForgetsNotified(rec, price, depart_iso) ==
    IF rec.last_price # None
       /\ should_alert(price, rec.last_price, rec.last_notified_price, rec.last_notified_dir)
    THEN [last_price |-> price, last_notified_price |-> price,
          last_notified_dir |-> Direction(price, rec.last_price),
          last_depart |-> depart_iso]
    ELSE [last_price |-> price, last_notified_price |-> None,
          last_notified_dir |-> NoDir, last_depart |-> depart_iso]

NewRecordKeepsDepart(rec, price, depart_iso) ==
    IF rec.last_price = None
    THEN [last_price |-> price, last_notified_price |-> None,
          last_notified_dir |-> NoDir, last_depart |-> depart_iso]
    ELSE IF should_alert(price, rec.last_price, rec.last_notified_price, rec.last_notified_dir)
         THEN [last_price |-> price, last_notified_price |-> price,
               last_notified_dir |-> Direction(price, rec.last_price),
               last_depart |-> depart_iso]
         ELSE [last_price |-> price, last_notified_price |-> rec.last_notified_price,
               last_notified_dir |-> rec.last_notified_dir, last_depart |-> rec.last_depart]

NewRecordHalfNotified(rec, price, depart_iso) ==
    IF rec.last_price = None
    THEN [last_price |-> price, last_notified_price |-> None,
          last_notified_dir |-> NoDir, last_depart |-> depart_iso]
    ELSE IF should_alert(price, rec.last_price, rec.last_notified_price, rec.last_notified_dir)
         THEN [last_price |-> price, last_notified_price |-> price,
               last_notified_dir |-> rec.last_notified_dir,
               last_depart |-> depart_iso]
         ELSE [last_price |-> price, last_notified_price |-> rec.last_notified_price,
               last_notified_dir |-> rec.last_notified_dir, last_depart |-> depart_iso]

NewRecordKeepsLastPrice(rec, price, depart_iso) ==
    IF rec.last_price = None
    THEN [last_price |-> price, last_notified_price |-> None,
          last_notified_dir |-> NoDir, last_depart |-> depart_iso]
    ELSE IF should_alert(price, rec.last_price, rec.last_notified_price, rec.last_notified_dir)
         THEN [last_price |-> price, last_notified_price |-> price,
               last_notified_dir |-> Direction(price, rec.last_price),
               last_depart |-> depart_iso]
         ELSE [last_price |-> rec.last_price, last_notified_price |-> rec.last_notified_price,
               last_notified_dir |-> rec.last_notified_dir, last_depart |-> depart_iso]

\* the record written by lines 226-271 for a matched candidate
NewRecord(rec, price, depart_iso) ==
    IF rec.last_price = None
    THEN [last_price |-> price, last_notified_price |-> None,
          last_notified_dir |-> NoDir, last_depart |-> depart_iso]
    ELSE IF should_alert(price, rec.last_price, rec.last_notified_price, rec.last_notified_dir)
         THEN [last_price |-> price, last_notified_price |-> price,
               last_notified_dir |-> Direction(price, rec.last_price),
               last_depart |-> depart_iso]
         ELSE [last_price |-> price, last_notified_price |-> rec.last_notified_price,
               last_notified_dir |-> rec.last_notified_dir, last_depart |-> depart_iso]

AlertsWithoutBaseline(rec, price) ==
    should_alert(price, rec.last_price, rec.last_notified_price, rec.last_notified_dir)

\* lines 226-246: an alert is decided only past the first observation
Alerts(rec, price) ==
    /\ rec.last_price # None
    /\ should_alert(price, rec.last_price, rec.last_notified_price, rec.last_notified_dir)

NotFoundStoreResets(st, pk, rec) == Put(st, pk, [rec EXCEPT !.last_depart = None])

\* lines 218-220: the store after an iteration that matched no candidate
NotFoundStore(st, pk, rec) == st

\* the outcomes of fetch_flights for a date: the provider's answer when
\* USE_REAL and it is not empty, else the generator's list of the minute
FetchOutcomes(date) ==
    { [real |-> r, ret |-> fetch_flights(date, r, mp)] : r \in RealOutcomes, mp \in MockPrices }

\* notify is called only for a decided alert; it may fail to deliver
NotifyOutcomes(alerts) == IF alerts THEN BOOLEAN ELSE {FALSE}

NotifyReturnsIfDelivered(delivered) == delivered

\* lines 61-67: notify returns to its caller whether or not the message was
\* delivered (a non-200 answer and any exception of the request are printed)
NotifyReturns(delivered) == TRUE

\* an exception leaves check_once and the __main__ loop; al is the alert
\* that was being sent, if any
Abort(al) ==
    /\ pc' = "crashed"
    /\ price_key' = <<>>
    /\ prev' = NoRecord
    /\ res' = <<>>
    /\ flights' = <<>>
    /\ found' = NotFound
    /\ tier' = "none"
    /\ alert' = al
    /\ selected' = <<>>
    /\ idx' = 1
    /\ store' = <<>>
    /\ changed' = FALSE
    /\ UNCHANGED <<prices_file, writes>>

SplitAlwaysOk(key) == TRUE

\* key.split("-",2) unpacked into three names: ValueError unless three parts
SplitOk(key) == Len(key) >= 3

\* one iteration of the loop of lines 192-271, for selected[idx]
LoopBody ==
    /\ pc = "loop"
    /\ LET sub == selected[idx]
           key == sub.key
           pk == PriceKey(key, sub.flightNo)
       IN
       IF ~SplitOk(key)
       THEN \* line 197: bad key, continue
            /\ price_key' = <<>>
            /\ prev' = NoRecord
            /\ res' = <<>>
            /\ flights' = <<>>
            /\ found' = NotFound
            /\ tier' = "none"
            /\ alert' = NoAlert
            /\ LoopExit(store, changed)
       ELSE \E fo \in FetchOutcomes(DateOf(key)) :
            LET fetched == fo.ret
                pr == Get(store, pk)
                m == Match(fetched.flights, sub.flightNo, sub.airline,
                           pr.last_price, pr.last_depart)
                f == m.cand
                decided == [key |-> pk, price |-> f.price,
                            dir |-> Direction(f.price, pr.last_price),
                            delivered |-> FALSE]
            IN
            IF ~fetched.ok
            THEN \* line 93 raises ValueError
                 Abort(NoAlert)
            ELSE IF f = NotFound
            THEN \* line 220: not found, continue
                 /\ price_key' = pk
                 /\ prev' = pr
                 /\ res' = fo.real
                 /\ flights' = fetched.flights
                 /\ found' = f
                 /\ tier' = m.tier
                 /\ alert' = NoAlert
                 /\ LoopExit(NotFoundStore(store, pk, pr), changed)
            ELSE \E delivered \in NotifyOutcomes(Alerts(pr, f.price)) :
                 IF Alerts(pr, f.price) /\ ~NotifyReturns(delivered)
                 THEN Abort(decided)
                 ELSE /\ price_key' = pk
                      /\ prev' = pr
                      /\ res' = fo.real
                      /\ flights' = fetched.flights
                      /\ found' = f
                      /\ tier' = m.tier
                      /\ alert' = IF Alerts(pr, f.price)
                                  THEN [decided EXCEPT !.delivered = delivered]
                                  ELSE NoAlert
                      /\ LoopExit(Put(store, pk, NewRecord(pr, f.price, f.depart)), TRUE)
    /\ UNCHANGED <<Config, subs_file>>

LoopIteration == LoopBody /\ UNCHANGED History

----------------------------------------------------------------------------
(* The subscription management surface of app.py.  The monitor reads
   subscriptions.json only at the start of check_once, so a request served
   while a cycle runs has the effect of the same request served right after
   it; the requests are therefore taken between cycles only. *)

\* re.fullmatch(r"[A-Z]{3}-[A-Z]{3}-\d{4}-\d{2}-\d{2}", key): five segments
\* of the right shape; the date is not checked to exist
Letters3 == {"DEL", "BLR"}
Digits4 == {"2025"}
Digits2 == {DayStr[n] : n \in 1..31}
KeyRegexMatches(key) ==
    /\ Len(key) = 5
    /\ key[1] \in Letters3 /\ key[2] \in Letters3
    /\ key[3] \in Digits4 /\ key[4] \in Digits2 /\ key[5] \in Digits2

AppKeys == {KeyOk, KeyBadDate, KeyShort}
FilterBodies == SeqsUpTo({[flightNo |-> "6E212", airline |-> "IndiGo"]}, MaxSubs)

\* lines 142-150 of app.py
RECURSIVE CleanFilters(_)
CleanFilters(body) ==
    IF body = <<>> THEN <<>>
    ELSE LET f == Head(body) IN
         IF f.flightNo = "" \/ Lower[f.airline] = "vistara"
         THEN CleanFilters(Tail(body))
         ELSE <<f>> \o CleanFilters(Tail(body))

RECURSIVE AsEntries(_, _)
AsEntries(key, clean) ==
    IF clean = <<>> THEN <<>>
    ELSE <<FlightEntry(key, Head(clean).flightNo, Head(clean).airline)>>
         \o AsEntries(key, Tail(clean))

\* POST /api/flight-filters
set_flight_filters ==
    \E key \in AppKeys, body \in FilterBodies :
        /\ pc # "loop"
        /\ KeyRegexMatches(key)
        /\ LET kept == SelectSeq(subs_file,
                         LAMBDA it : ~(it.kind = "flight" /\ it.key = key /\ it.flightNo # ""))
               items == kept \o AsEntries(key, CleanFilters(body))
           IN /\ Len(items) <= MaxSubs
              /\ subs_file' = items
        /\ UNCHANGED <<Config, History, prices_file, pc, selected, idx, store, changed,
                       price_key, prev, res, flights, found, tier, alert, writes>>

\* DELETE /api/routes
delete_route ==
    \E key \in AppKeys :
        /\ pc # "loop"
        /\ KeyRegexMatches(key)
        /\ subs_file' = SelectSeq(subs_file, LAMBDA it : it.key # key)
        /\ UNCHANGED <<Config, History, prices_file, pc, selected, idx, store, changed,
                       price_key, prev, res, flights, found, tier, alert, writes>>

\* the monitor process over whatever subscriptions.json holds
Next ==
    \/ CheckOnceBegin
    \/ LoopIteration

Spec == Init /\ [][Next]_vars

\* the monitor next to the subscription management surface
NextApp ==
    \/ CheckOnceBegin
    \/ LoopIteration
    \/ delete_route
    \/ set_flight_filters

\* subscriptions.json starts with at most one entry, the requests build the
\* rest; the alert settings are the defaults of lines 19-20
InitApp ==
    /\ Init
    /\ Len(subs_file) <= 1
    /\ ALERT_MODE = "drop"
    /\ MIN_CHANGE_PCT = 10

SpecApp == InitApp /\ [][NextApp]_vars


----------------------------------------------------------------------------
(* The matcher on its own: lines 206-215 of check_once applied to every
   candidate list of at most MaxFlights candidates, for a subscription of
   flight 6E212 with or without an airline, and a store that has no record
   of it or a record with a parseable or an unparseable last_depart *)

MatchDeparts == {99, 100, 1900, BadDepart}
MatchTarget == 1000
MatchCands ==
    { Candidate(a, n, d, p) : a \in {"INDIGO", "Air India"}, n \in {"6E212", "6E777"},
                              d \in MatchDeparts, p \in {4900, 5000} }
MatchSubs ==
    { [key |-> KeyOk, flightNo |-> "6E212", airline |-> a] : a \in {"IndiGo", ""} }
MatchPrevs ==
    { NoRecord } \cup
    { [last_price |-> 5000, last_notified_price |-> None,
       last_notified_dir |-> NoDir, last_depart |-> d] : d \in {MatchTarget, BadDepart} }

InitMatch ==
    /\ ALERT_MODE = "drop"
    /\ MIN_CHANGE_PCT = 10
    /\ USE_REAL = TRUE
    /\ subs_file = <<>>
    /\ prices_file = <<>>
    /\ pc = "match"
    /\ \E sub \in MatchSubs : selected = <<sub>>
    /\ idx = 1
    /\ \E rec \in MatchPrevs :
          store = IF rec = NoRecord THEN <<>>
                  ELSE Put(<<>>, PriceKey(KeyOk, "6E212"), rec)
    /\ changed = FALSE
    /\ price_key = <<>>
    /\ prev = NoRecord
    /\ sent = {}
    /\ last_sent = <<>>
    /\ flights \in SeqsUpTo(MatchCands, MaxFlights)
    /\ res = flights
    /\ found = NotFound
    /\ tier = "none"
    /\ alert = NoAlert
    /\ writes = 0

MatchStep ==
    /\ pc = "match"
    /\ LET sub == selected[idx]
           pk == PriceKey(sub.key, sub.flightNo)
           pr == Get(store, pk)
           m == Match(flights, sub.flightNo, sub.airline, pr.last_price, pr.last_depart)
       IN /\ price_key' = pk
          /\ prev' = pr
          /\ found' = m.cand
          /\ tier' = m.tier
    /\ pc' = "matched"
    /\ UNCHANGED <<Config, History, subs_file, prices_file, selected, idx, store, changed,
                   res, flights, alert, writes>>

\* find_fallback called on its own with the same inputs
FindFallbackStep ==
    /\ pc = "match"
    /\ LET sub == selected[idx]
           pk == PriceKey(sub.key, sub.flightNo)
           pr == Get(store, pk)
           fb == find_fallback(flights, sub.airline, pr.last_depart)
       IN /\ price_key' = pk
          /\ prev' = pr
          /\ found' = fb
          /\ tier' = IF fb # NotFound THEN "fallback" ELSE "none"
    /\ pc' = "fellback"
    /\ UNCHANGED <<Config, History, subs_file, prices_file, selected, idx, store, changed,
                   res, flights, alert, writes>>

NextMatch ==
    \/ MatchStep
    \/ FindFallbackStep

SpecMatch == InitMatch /\ [][NextMatch]_vars

----------------------------------------------------------------------------
(* The monitor with the history of its alerts, for one subscription entry *)

InitHist ==
    /\ Init
    /\ Len(subs_file) <= 1

LoopIterationHist ==
    /\ LoopBody
    /\ sent' = IF alert' = NoAlert THEN sent
               ELSE sent \cup {<<alert'.key, alert'.price, alert'.dir>>}
    /\ last_sent' = IF alert' = NoAlert THEN last_sent
                    ELSE Put(last_sent, alert'.key, <<alert'.price, alert'.dir>>)

NextHist ==
    \/ CheckOnceBegin
    \/ LoopIterationHist

SpecHist == InitHist /\ [][NextHist]_vars

----------------------------------------------------------------------------
(* Claims *)

\* the last iteration matched a candidate for a flight that had a baseline
Compared == found # NotFound /\ prev.last_price # None
\* the direction of the move it saw
Moved == Direction(found.price, prev.last_price)

\* the store as the monitor holds it: in memory during a cycle, else the file
StoreAfter == IF pc = "loop" THEN store ELSE prices_file
\* the record of the last iteration's tracking key, after the iteration
AfterRecord == Get(StoreAfter, price_key)
NotifiedPair(rec) == <<rec.last_notified_price, rec.last_notified_dir>>
\* the last iteration called fetch_flights and it returned
Fetched == price_key # <<>>

\* C1 as stated: an alert is never decided for a (flight, price, direction)
\* that was already alerted at any earlier time.
C1_NeverRepeats ==
    [][(pc = "loop" /\ alert' # NoAlert)
         => <<alert'.key, alert'.price, alert'.dir>> \notin sent]_vars

\* C1, amended: when the most recent alert of a flight was at price P in
\* direction D, a cycle that matches the flight at P with direction D again
\* decides no alert, whatever was observed in between.
C1_NoRepeatOfLastAlert ==
    [][(/\ pc = "loop"
        /\ found' # NotFound
        /\ price_key' \in DOMAIN last_sent
        /\ last_sent[price_key'] = <<found'.price, Direction(found'.price, prev'.last_price)>>)
         => alert' = NoAlert]_vars

\* C1 witness: a move that is enabled and reaches the threshold is
\* suppressed because it repeats the flight's last alert
C1_Witness ==
    /\ Compared
    /\ alert = NoAlert
    /\ ModeEnables(ALERT_MODE, Moved)
    /\ PctReached(found.price, prev.last_price, MIN_CHANGE_PCT)
    /\ price_key \in DOMAIN last_sent
    /\ last_sent[price_key] = <<found.price, Moved>>

\* C2: for a matched flight with a baseline an alert is decided exactly when
\* the move is a drop or a rise enabled by ALERT_MODE, 100*|price-last|/last
\* (0 when last <= 0) is at least MIN_CHANGE_PCT, and the price or the
\* direction differs from the last notified ones; the record then carries
\* the price and the direction as last notified.  From last_price 5000 with
\* mode drop and threshold 1.0, 4900 alerts and records (4900, drop); 4950
\* next alerts nothing, sets last_price 4950 and keeps (4900, drop).
C2_AlertExactlyWhen ==
    Compared =>
      LET price == found.price
          last == prev.last_price
          dir == IF price < last THEN "drop" ELSE IF price > last THEN "rise" ELSE "flat"
          enabled == \/ dir = "drop" /\ ALERT_MODE \in {"drop", "both"}
                     \/ dir = "rise" /\ ALERT_MODE \in {"rise", "both"}
          reached == IF last > 0 THEN 1000 * Abs(price - last) >= MIN_CHANGE_PCT * last
                     ELSE 0 >= MIN_CHANGE_PCT
          fresh == price # prev.last_notified_price \/ dir # prev.last_notified_dir
      IN /\ (alert # NoAlert) <=> (enabled /\ reached /\ fresh)
         /\ alert # NoAlert =>
              /\ alert.key = price_key /\ alert.price = price /\ alert.dir = dir
              /\ NotifiedPair(AfterRecord) = <<price, dir>>
         /\ (/\ ALERT_MODE = "drop" /\ MIN_CHANGE_PCT = 10
             /\ last = 5000 /\ prev.last_notified_price = None /\ price = 4900)
              => /\ alert # NoAlert
                 /\ NotifiedPair(AfterRecord) = <<4900, "drop">>
         /\ (/\ ALERT_MODE = "drop" /\ MIN_CHANGE_PCT = 10
             /\ last = 4900 /\ NotifiedPair(prev) = <<4900, "drop">> /\ price = 4950)
              => /\ alert = NoAlert
                 /\ AfterRecord.last_price = 4950
                 /\ NotifiedPair(AfterRecord) = <<4900, "drop">>

\* C2 witness: the second cycle of the scenario, after the alert at 4900
C2_Witness ==
    /\ Compared
    /\ ALERT_MODE = "drop" /\ MIN_CHANGE_PCT = 10
    /\ prev.last_price = 4900 /\ NotifiedPair(prev) = <<4900, "drop">>
    /\ found.price = 4950
    /\ alert = NoAlert
    /\ AfterRecord.last_price = 4950

\* C3 as stated: no error met while one subscription is processed ends the
\* cycle or the process.
C3_NeverAborts == pc # "crashed"

\* C4 as stated: when the live provider fails for a flight, nothing is
\* matched, no alert is decided and the record stays as it was.
C4_FailureIsEmptyList ==
    (USE_REAL /\ Fetched /\ res = <<>>) =>
        /\ found = NotFound
        /\ alert = NoAlert
        /\ AfterRecord = prev

\* C4, amended: when the live provider fails for a flight, the candidates
\* are the list of the stand-in generator; the matcher runs on it, and when
\* no tier yields a candidate no alert is decided and the record stays as
\* it was.
C4_FailureFallsBackToMock ==
    (USE_REAL /\ Fetched /\ res = <<>>) =>
        /\ \E p \in MockPrices : flights = stable_mock_flights(p)
        /\ found = NotFound =>
              /\ alert = NoAlert
              /\ AfterRecord = prev
              /\ (price_key \in DOMAIN StoreAfter) <=> (prev # NoRecord)

\* C4 witness: the provider failed and a generated flight was matched against
\* a baseline
C4_Witness ==
    /\ USE_REAL /\ Fetched /\ res = <<>>
    /\ Compared
    /\ \E i \in 1..Len(MockSlots) : found.flightNo = MockNumbers[i]

\* C4 second witness: the provider failed and the generated list holds no
\* candidate for the flight
C4_WitnessUnmatched ==
    /\ USE_REAL /\ Fetched /\ res = <<>>
    /\ found = NotFound

\* C5: in every step, the notified price and direction of a record change
\* only when the step decides an alert for that flight, and then both are
\* set, to the price and the direction of that alert; in any other
\* iteration both keep their values.
C5_NotifiedOnlyOnAlert ==
    [][pc' # "crashed" =>
         \A k \in DOMAIN StoreAfter' :
            IF pc = "loop" /\ alert' # NoAlert /\ alert'.key = k
            THEN NotifiedPair(StoreAfter'[k]) = <<alert'.price, alert'.dir>>
            ELSE NotifiedPair(StoreAfter'[k]) = NotifiedPair(Get(StoreAfter, k))]_vars

\* C5 witness: a matched cycle without alert keeps an earlier notification
C5_Witness ==
    /\ Compared
    /\ alert = NoAlert
    /\ prev.last_notified_price # None
    /\ found.price # prev.last_price
    /\ NotifiedPair(AfterRecord) = NotifiedPair(prev)

\* C6: a record is created or changed only by an iteration that matched a
\* candidate for its flight; an iteration in which no tier yields a
\* candidate leaves the store as it was, so the record is the same after any
\* number of unmatched cycles.
C6_UnmatchedKeepsRecord ==
    [][pc' # "crashed" =>
         \A k \in DOMAIN StoreAfter \cup DOMAIN StoreAfter' :
            (\/ Get(StoreAfter', k) # Get(StoreAfter, k)
             \/ (k \in DOMAIN StoreAfter') # (k \in DOMAIN StoreAfter))
              => (pc = "loop" /\ price_key' = k /\ found' # NotFound)]_vars

\* C6 witness: an iteration found no candidate for a flight that has a record
C6_Witness ==
    /\ Fetched
    /\ found = NotFound
    /\ prev.last_depart # None
    /\ AfterRecord = prev

\* C10: the first matched cycle of a flight without baseline decides no
\* alert and stores the observed price, no notified price, no notified
\* direction, and the departure of the matched candidate.
C10_FirstObservation ==
    (found # NotFound /\ prev.last_price = None) =>
        /\ alert = NoAlert
        /\ price_key \in DOMAIN StoreAfter
        /\ AfterRecord = [last_price |-> found.price, last_notified_price |-> None,
                          last_notified_dir |-> NoDir, last_depart |-> found.depart]

\* C10 witness: a first observation by auto-snap, with every move enabled
C10_Witness ==
    /\ found # NotFound /\ prev.last_price = None
    /\ tier = "snap"
    /\ ALERT_MODE = "both" /\ MIN_CHANGE_PCT = 0
    /\ AfterRecord.last_price = found.price

\* the subscription the matcher was applied to
MatchedSub == selected[idx]
\* some candidate carries the subscribed flight number
ExactExists == \E i \in 1..Len(flights) : flights[i].flightNo = MatchedSub.flightNo
\* candidate i is of the subscribed airline and its departure can be compared
SameAirlineAt(i) ==
    /\ Lower[flights[i].airline] = Lower[MatchedSub.airline]
    /\ flights[i].depart # BadDepart
DeltaAt(i) == Abs(flights[i].depart - prev.last_depart)
TargetKnown == prev.last_depart # None /\ prev.last_depart # BadDepart
\* some candidate of the subscribed airline departs within 900 s of last_depart
FallbackExists ==
    /\ MatchedSub.airline # ""
    /\ TargetKnown
    /\ \E i \in 1..Len(flights) : SameAirlineAt(i) /\ DeltaAt(i) <= 900

\* C7: auto-snap yields the match only when last_price is absent, an airline
\* is present and neither exact nor fallback matching has a candidate; with
\* a baseline, when exact and fallback both fail nothing is matched.
C7_SnapOnlyWithoutBaseline ==
    pc = "matched" =>
        /\ tier = "snap" =>
              /\ prev.last_price = None
              /\ MatchedSub.airline # ""
              /\ ~ExactExists /\ ~FallbackExists
        /\ (prev.last_price # None /\ ~ExactExists /\ ~FallbackExists) =>
              (found = NotFound /\ tier = "none")

\* C7 witness: with a baseline, exact and fallback fail although a candidate
\* of the subscribed airline is present, and nothing is matched
C7_Witness ==
    /\ pc = "matched"
    /\ prev.last_price # None
    /\ MatchedSub.airline # ""
    /\ ~ExactExists /\ ~FallbackExists
    /\ \E i \in 1..Len(flights) : Lower[flights[i].airline] = Lower[MatchedSub.airline]
    /\ found = NotFound

\* C8: when some candidate has the subscribed flight number, the first such
\* candidate is the match, by the exact tier, even when another candidate of
\* the same airline departs closer to last_depart or is cheaper.
C8_ExactPreempts ==
    (pc = "matched" /\ ExactExists) =>
        /\ tier = "exact"
        /\ \E i \in 1..Len(flights) :
              /\ found = flights[i]
              /\ flights[i].flightNo = MatchedSub.flightNo
              /\ \A j \in 1..(i - 1) : flights[j].flightNo # MatchedSub.flightNo

\* C8 witness: the exact candidate is matched although another candidate of
\* the airline is within the fallback window, closer to last_depart and
\* cheaper
C8_Witness ==
    /\ pc = "matched" /\ tier = "exact"
    /\ TargetKnown /\ MatchedSub.airline # ""
    /\ found.depart # BadDepart
    /\ \E j \in 1..Len(flights) :
          /\ flights[j].flightNo # MatchedSub.flightNo
          /\ SameAirlineAt(j)
          /\ DeltaAt(j) <= 900
          /\ DeltaAt(j) < Abs(found.depart - prev.last_depart)
          /\ flights[j].price < found.price

\* C9: find_fallback returns no candidate that departs more than 900 s from
\* last_depart; it returns none without airline or without last_depart or
\* when no candidate of the airline is within 900 s, and it accepts a
\* candidate at exactly 900 s.
C9_FallbackWithinWindow ==
    pc = "fellback" =>
        /\ found # NotFound =>
              /\ MatchedSub.airline # "" /\ TargetKnown
              /\ Lower[found.airline] = Lower[MatchedSub.airline]
              /\ found.depart # BadDepart
              /\ Abs(found.depart - prev.last_depart) <= 900
        /\ ~FallbackExists => found = NotFound
        /\ (/\ MatchedSub.airline # "" /\ TargetKnown
            /\ \E i \in 1..Len(flights) : SameAirlineAt(i) /\ DeltaAt(i) = 900)
              => found # NotFound

\* C9 witness: a candidate at exactly 900 s is returned while another one of
\* the airline, at 901 s, is in the list
C9_Witness ==
    /\ pc = "fellback"
    /\ found # NotFound
    /\ Abs(found.depart - prev.last_depart) = 900
    /\ \E j \in 1..Len(flights) : SameAirlineAt(j) /\ DeltaAt(j) = 901

\* C11: whenever an iteration matches a candidate, by any of the three
\* tiers and whether or not an alert is decided, the record of the flight
\* then holds the candidate's price as last_price and the candidate's
\* departure as last_depart.
C11_MatchRefreshesLast ==
    found # NotFound =>
        /\ tier \in {"exact", "fallback", "snap"}
        /\ price_key \in DOMAIN StoreAfter
        /\ AfterRecord.last_price = found.price
        /\ AfterRecord.last_depart = found.depart

\* C11 witness: a fallback match against a baseline, at another price and
\* another departure, that decides no alert
C11_Witness ==
    /\ Compared
    /\ tier = "fallback"
    /\ alert = NoAlert
    /\ found.price # prev.last_price
    /\ found.depart # prev.last_depart
    /\ AfterRecord.last_price = found.price
    /\ AfterRecord.last_depart = found.depart

\* C12: a rise under mode drop, or a drop under mode rise, decides no alert
\* whatever the threshold and the size of the move, and leaves the notified
\* price and direction of the record as they were.
C12_DisabledDirectionSilent ==
    (/\ Compared
     /\ \/ ALERT_MODE = "drop" /\ found.price > prev.last_price
        \/ ALERT_MODE = "rise" /\ found.price < prev.last_price)
      => /\ alert = NoAlert
         /\ NotifiedPair(AfterRecord) = NotifiedPair(prev)

\* C12 witness: under mode drop, a rise above the threshold for a flight
\* that was notified before
C12_Witness ==
    /\ Compared
    /\ ALERT_MODE = "drop" /\ MIN_CHANGE_PCT = 20
    /\ found.price > prev.last_price
    /\ prev.last_price > 0
    /\ 1000 * (found.price - prev.last_price) > MIN_CHANGE_PCT * prev.last_price
    /\ prev.last_notified_price # None
    /\ alert = NoAlert

\* C13: a matched cycle whose price equals last_price decides no alert, for
\* every mode, every threshold (0 included) and every notification history,
\* and leaves the notified price and direction as they were.
C13_FlatNeverAlerts ==
    (Compared /\ found.price = prev.last_price) =>
        /\ alert = NoAlert
        /\ NotifiedPair(AfterRecord) = NotifiedPair(prev)

\* C13 witness: an unchanged price under mode both and threshold 0, for a
\* flight whose last notified price is another one or none
C13_Witness ==
    /\ Compared
    /\ found.price = prev.last_price
    /\ ALERT_MODE = "both" /\ MIN_CHANGE_PCT = 0
    /\ prev.last_notified_price # found.price
    /\ alert = NoAlert

\* C14: within one cycle prices.json is read once, when the cycle starts,
\* and written at most once, by the step that ends the cycle after the last
\* subscribed flight; no iteration that leaves flights to process writes it,
\* and a cycle in which some record changed ends with the file holding the
\* store of the cycle.
C14_WrittenOnceAtEnd ==
    [][/\ (pc = "sleep" /\ pc' = "loop") => (store' = prices_file /\ writes' = 0)
       /\ pc = "loop" =>
            /\ writes' <= 1
            /\ pc' = "loop" => (prices_file' = prices_file /\ writes' = writes)
            /\ prices_file' # prices_file => (idx = Len(selected) /\ writes' = writes + 1)
            /\ (pc' # "loop" /\ (changed \/ found' # NotFound)) =>
                  /\ writes' = 1
                  /\ \A k \in DOMAIN store :
                        /\ k \in DOMAIN prices_file'
                        /\ k # price_key' => prices_file'[k] = store[k]]_vars

\* subscriptions.json holds a flight-level entry for tracking key k
Subscribed(k) ==
    \E i \in 1..Len(subs_file) :
        /\ subs_file[i].kind = "flight"
        /\ subs_file[i].flightNo # ""
        /\ PriceKey(subs_file[i].key, subs_file[i].flightNo) = k

\* C15: no step of the monitor or of the subscription management surface
\* removes a record from prices.json, so the set of its tracking keys never
\* shrinks; and the record of a key that has no subscription any more keeps
\* its contents.
C15_NeverDeletes ==
    [][\A k \in DOMAIN prices_file :
          /\ k \in DOMAIN prices_file'
          /\ ~Subscribed(k) => prices_file'[k] = prices_file[k]]_vars

\* C15 witness: a cycle has processed another flight and saved the store
\* while the file holds the record of a flight whose subscription was removed
C15_Witness ==
    /\ pc = "sleep"
    /\ found # NotFound
    /\ writes = 1
    /\ \E k \in DOMAIN prices_file : ~Subscribed(k) /\ k # price_key

\* C16: an iteration whose key has fewer than three dash-delimited parts
\* decides no alert, matches nothing, leaves every record of the store as it
\* was and creates none, and passes on to the next subscription of the list
\* (or, after the last one, ends the cycle as any other iteration does).
C16_MalformedKeySkipped ==
    [][(pc = "loop" /\ Len(selected[idx].key) < 3) =>
          /\ alert' = NoAlert
          /\ found' = NotFound
          /\ IF idx < Len(selected)
             THEN /\ pc' = "loop" /\ idx' = idx + 1 /\ selected' = selected
                  /\ store' = store /\ changed' = changed
                  /\ prices_file' = prices_file
             ELSE /\ pc' = "sleep"
                  /\ prices_file' = IF changed THEN store ELSE prices_file]_vars

\* C16 witness: a cycle has skipped the malformed key of its first
\* subscription, then matched and saved the flight of its second one
C16_Witness ==
    /\ pc = "sleep"
    /\ Len(subs_file) = 2
    /\ subs_file[1].kind = "flight" /\ Len(subs_file[1].key) < 3
    /\ found # NotFound
    /\ writes = 1
    /\ \A k \in DOMAIN prices_file : k[1] # subs_file[1].key

\* C17: when an alert is decided and its delivery fails, the iteration ends
\* as with a delivered alert: the record holds the price as last_price and
\* as last notified price, the direction as last notified direction and the
\* candidate's departure; the changed flag is set, so that the store is
\* saved when the cycle ends (in this step after the last subscription);
\* the loop passes on to the next subscription, and the record marks the
\* alert as notified, so that it is not decided again for the same price.
C17_DeliveryFailureSwallowed ==
    [][(pc = "loop" /\ alert' # NoAlert /\ ~alert'.delivered) =>
          /\ pc' # "crashed"
          /\ Get(StoreAfter', alert'.key) =
                [last_price |-> alert'.price, last_notified_price |-> alert'.price,
                 last_notified_dir |-> alert'.dir, last_depart |-> found'.depart]
          /\ IF idx < Len(selected)
             THEN /\ pc' = "loop" /\ idx' = idx + 1 /\ selected' = selected
                  /\ changed'
             ELSE /\ pc' = "sleep" /\ writes' = writes + 1]_vars

\* C17 witness: the first of two subscriptions had an alert whose delivery
\* failed, and the cycle goes on to the second with the record updated
C17_Witness ==
    /\ pc = "loop" /\ idx = 2
    /\ alert # NoAlert /\ ~alert.delivered
    /\ changed
    /\ NotifiedPair(Get(store, alert.key)) = <<alert.price, alert.dir>>

\* candidate i has the least departure delta among the candidates of the
\* subscribed airline whose departure can be compared
MinDeltaAt(i) ==
    /\ SameAirlineAt(i)
    /\ \A j \in 1..Len(flights) : SameAirlineAt(j) => DeltaAt(i) <= DeltaAt(j)

\* C18: with an airline and a last_depart, what find_fallback returns (on
\* its own, or as the fallback tier after exact matching failed) is a
\* candidate of the subscribed airline, compared without regard to case,
\* with the least absolute departure delta to last_depart, and the first
\* such candidate of the list when several share that delta; it returns
\* one whenever that least delta is within the window.
C18_FallbackFirstClosest ==
    (/\ pc = "fellback" \/ (pc = "matched" /\ ~ExactExists)
     /\ MatchedSub.airline # "" /\ TargetKnown) =>
        /\ found # NotFound =>
              \E i \in 1..Len(flights) :
                  /\ found = flights[i]
                  /\ MinDeltaAt(i)
                  /\ \A j \in 1..(i - 1) : ~MinDeltaAt(j)
        /\ (\E i \in 1..Len(flights) : MinDeltaAt(i) /\ DeltaAt(i) <= 900)
              => found # NotFound

\* C18 witness: two different candidates of the airline, written in another
\* case than the subscription, are equally close to last_depart, and the
\* earlier one of the list is returned although the later one departs first
C18_Witness ==
    /\ pc = "fellback"
    /\ Len(flights) = 2
    /\ MinDeltaAt(1) /\ MinDeltaAt(2)
    /\ flights[2].depart < flights[1].depart
    /\ flights[1].airline # MatchedSub.airline
    /\ found = flights[1]

\* the move from price a to price b is at least MIN_CHANGE_PCT percent of a
MeetsThreshold(a, b) ==
    IF a <= 0 THEN MIN_CHANGE_PCT <= 0
    ELSE 1000 * Abs(b - a) >= MIN_CHANGE_PCT * a

\* C19: under mode both, let a flight be matched at price P while its
\* last_price is another price Q, the moves from P to Q and from Q to P both
\* meeting the threshold, and let the alerts so far fit the alternation: none
\* yet (the cycle after the baseline), or the last one at Q for the move from
\* P to Q (the cycle before).  Then this cycle decides an alert, at P, for
\* the move from Q to P; by induction every cycle after the baseline does.
C19_AlternationAlwaysAlerts ==
    [][(/\ pc = "loop" /\ ALERT_MODE = "both"
        /\ found' # NotFound /\ prev'.last_price # None
        /\ found'.price # prev'.last_price
        /\ MeetsThreshold(prev'.last_price, found'.price)
        /\ MeetsThreshold(found'.price, prev'.last_price)
        /\ \/ price_key' \notin DOMAIN last_sent
           \/ last_sent[price_key'] =
                 <<prev'.last_price,
                   IF prev'.last_price < found'.price THEN "drop" ELSE "rise">>)
          => /\ alert' # NoAlert
             /\ alert'.key = price_key' /\ alert'.price = found'.price
             /\ alert'.dir = IF found'.price < prev'.last_price THEN "drop" ELSE "rise"]_vars

\* C19 witness: with a threshold of 2.0, the cycle before alerted at Q for
\* the move from P, and this cycle alerts at P for the move back from Q;
\* both alerts are in the history
C19_Witness ==
    /\ Compared
    /\ ALERT_MODE = "both" /\ MIN_CHANGE_PCT = 20
    /\ alert # NoAlert
    /\ found.price # prev.last_price
    /\ prev.last_notified_price = prev.last_price
    /\ prev.last_notified_dir = Direction(prev.last_price, found.price)
    /\ Cardinality(sent) = 2
    /\ <<price_key, found.price, Moved>> \in sent
    /\ <<price_key, prev.last_price, prev.last_notified_dir>> \in sent

\* C20: for a flight whose last_price is 0 or less, pct_move is 0 whatever
\* the new price: with a threshold above 0 no alert is decided and only
\* last_price and last_depart of the record change; with threshold 0 an
\* alert is decided exactly when the move is a drop or a rise enabled by the
\* mode and passes the de-duplication gate.
C20_ZeroBaseline ==
    (Compared /\ prev.last_price <= 0) =>
        LET price == found.price
            dir == IF price < prev.last_price THEN "drop"
                   ELSE IF price > prev.last_price THEN "rise" ELSE "flat"
            enabled == \/ dir = "drop" /\ ALERT_MODE \in {"drop", "both"}
                       \/ dir = "rise" /\ ALERT_MODE \in {"rise", "both"}
            fresh == price # prev.last_notified_price \/ dir # prev.last_notified_dir
        IN /\ MIN_CHANGE_PCT > 0 =>
                 /\ alert = NoAlert
                 /\ AfterRecord = [prev EXCEPT !.last_price = price,
                                               !.last_depart = found.depart]
           /\ MIN_CHANGE_PCT = 0 =>
                 ((alert # NoAlert) <=> (enabled /\ fresh))

\* C20 witness: from a baseline of 0 the price goes to a positive one in an
\* enabled direction, and a threshold above 0 keeps the alert away
C20_Witness ==
    /\ Compared
    /\ prev.last_price = 0
    /\ found.price > 0
    /\ ALERT_MODE \in {"rise", "both"}
    /\ MIN_CHANGE_PCT > 0
    /\ alert = NoAlert
    /\ AfterRecord.last_price = found.price

\* C20 second witness: the same move with threshold 0 decides an alert
C20_WitnessThresholdZero ==
    /\ Compared
    /\ prev.last_price = 0
    /\ found.price > 0
    /\ MIN_CHANGE_PCT = 0
    /\ alert # NoAlert

\* C21: for every tracking key, an alert that is decided differs from the
\* alert decided last before it for that key, whatever the number of cycles
\* and of matched or unmatched iterations between the two, in its price or
\* in its direction.
C21_ConsecutiveAlertsDiffer ==
    [][(/\ pc = "loop"
        /\ alert' # NoAlert
        /\ alert'.key \in DOMAIN last_sent)
         => \/ last_sent[alert'.key][1] # alert'.price
            \/ last_sent[alert'.key][2] # alert'.dir]_vars

\* C21 witness: the alert before was a drop to 4950, cycles without alert
\* followed, and the alert now is a drop again, at another price
C21_Witness ==
    /\ alert # NoAlert
    /\ alert.dir = "drop" /\ alert.price = 4900
    /\ NotifiedPair(prev) = <<4950, "drop">>
    /\ prev.last_price # 4950
    /\ sent = {<<price_key, 4950, "drop">>, <<price_key, 4900, "drop">>}
    /\ last_sent[price_key] = <<4900, "drop">>

\* C22: a matched cycle whose price is less than MIN_CHANGE_PCT percent away
\* from the record's last_price decides no alert, however far the price is
\* from the last notified price or from an earlier baseline, keeps the
\* notified price and direction, and makes its price the last_price that the
\* next matched cycle is compared with; so a run of cycles that each move by
\* less than the threshold decides no alert at all.
C22_ThresholdPerCycle ==
    [][(/\ pc = "loop"
        /\ found' # NotFound
        /\ Get(store, price_key').last_price # None
        /\ ~MeetsThreshold(Get(store, price_key').last_price, found'.price))
         => /\ alert' = NoAlert
            /\ sent' = sent
            /\ prev'.last_price = Get(store, price_key').last_price
            /\ Get(StoreAfter', price_key').last_price = found'.price
            /\ NotifiedPair(Get(StoreAfter', price_key'))
                  = NotifiedPair(Get(store, price_key'))]_vars

\* C22 witness: with mode both and a threshold of 2.0, the only alert so far
\* was the drop to 4900; the price then rose to 4950 and now to 5000, each
\* time by less than 2.0 percent and no alert is decided, although 5000 is
\* more than 2.0 percent above the notified 4900
C22_Witness ==
    /\ Compared
    /\ ALERT_MODE = "both" /\ MIN_CHANGE_PCT = 20
    /\ NotifiedPair(prev) = <<4900, "drop">>
    /\ prev.last_price = 4950
    /\ found.price = 5000
    /\ MeetsThreshold(prev.last_notified_price, found.price)
    /\ alert = NoAlert
    /\ sent = {<<price_key, 4900, "drop">>}
    /\ AfterRecord.last_price = 5000

\* the tracking key of the i-th subscription of the cycle
SelectedKey(i) == PriceKey(selected[i].key, selected[i].flightNo)

\* C23: when the subscription list holds the same (route key, flightNo)
\* pair more than once, an occurrence that follows another one in the cycle
\* reads the record as the earlier one left it in memory: when the one just
\* before it matched at the price it matches itself, its last_price is that
\* price and it decides no alert, so that of the two at most one alerts; and
\* any later occurrence that finds its matched price as last_price decides
\* no alert and leaves that price as last_price for the next one.
C23_DuplicateAlertsOnce ==
    [][(pc = "loop" /\ idx > 1 /\ found' # NotFound) =>
          /\ (/\ SelectedKey(idx - 1) = SelectedKey(idx)
              /\ found # NotFound
              /\ found'.price = found.price)
               => /\ prev'.last_price = found.price
                  /\ prev' = Get(store, SelectedKey(idx))
                  /\ alert' = NoAlert
                  /\ ~(alert # NoAlert /\ alert' # NoAlert)
          /\ (/\ \E j \in 1..(idx - 1) : SelectedKey(j) = SelectedKey(idx)
              /\ Get(store, SelectedKey(idx)).last_price = found'.price)
               => /\ alert' = NoAlert
                  /\ Get(StoreAfter', SelectedKey(idx)).last_price = found'.price]_vars

\* C23 witness: subscriptions.json holds the same flight twice; the cycle
\* has matched the second occurrence at the price at which the record was
\* notified and last seen, decided no alert for it and saved the store
C23_Witness ==
    /\ pc = "sleep"
    /\ Len(subs_file) = 2
    /\ subs_file[1].kind = "flight" /\ subs_file[2].kind = "flight"
    /\ PriceKey(subs_file[1].key, subs_file[1].flightNo)
          = PriceKey(subs_file[2].key, subs_file[2].flightNo)
    /\ price_key = PriceKey(subs_file[2].key, subs_file[2].flightNo)
    /\ found # NotFound
    /\ prev.last_price = found.price
    /\ NotifiedPair(prev) = <<found.price, "drop">>
    /\ alert = NoAlert
    /\ writes = 1

\* a Tracking Record with a last_price, with notified price and direction
\* both absent or both present, the direction then a drop or a rise that
\* ALERT_MODE enables
WellFormed(rec) ==
    /\ rec.last_price # None
    /\ rec.last_price \in Nat
    /\ (rec.last_notified_price = None) <=> (rec.last_notified_dir = NoDir)
    /\ rec.last_notified_price # None =>
          /\ rec.last_notified_price \in Nat
          /\ rec.last_notified_dir \in {"drop", "rise"}
          /\ rec.last_notified_dir = "drop" => ALERT_MODE \in {"drop", "both"}
          /\ rec.last_notified_dir = "rise" => ALERT_MODE \in {"rise", "both"}

\* C24: from an empty prices.json and with a configuration that does not
\* change, every record of prices.json, and every record of the store that
\* a cycle holds in memory, is well-formed at all times: last_price is
\* present; last_notified_price and last_notified_dir are both absent or
\* both present; a present direction is drop or rise and enabled by
\* ALERT_MODE.
C24_RecordsWellFormed ==
    /\ \A k \in DOMAIN prices_file : WellFormed(prices_file[k])
    /\ \A k \in DOMAIN store : WellFormed(store[k])

\* C24 witness: under mode both, prices.json holds a record that was
\* notified for a rise and has since seen another price without alert, after
\* an earlier alert for a drop
C24_Witness ==
    /\ pc = "sleep"
    /\ ALERT_MODE = "both"
    /\ \E k \in DOMAIN prices_file :
          /\ prices_file[k].last_notified_dir = "rise"
          /\ prices_file[k].last_notified_price # prices_file[k].last_price
          /\ \E p \in Prices : <<k, p, "drop">> \in sent
          /\ <<k, prices_file[k].last_notified_price, "rise">> \in sent

====
